---- MODULE Spec2Model ----
(***************************************************************************)
(* Model of the Agora vote ledger, poll life cycle, option editing and     *)
(* notification triggers (slack_handlers.py, poll_management.py,           *)
(* dashboard_api.py, api/polls.py, services/implementations.py).           *)
(*                                                                         *)
(* The database is the default SQLite store (config/config.py): integer    *)
(* primary keys are allocated as max(id)+1, foreign keys are not enforced, *)
(* and models.py declares no unique constraint on any table.               *)
(***************************************************************************)
EXTENDS Integers, Sequences, FiniteSets, TLC

\* ------------------------------------------------------------------ bounds
NumUsers == 2
MaxPollId == 2
MaxOptionId == 4
MaxEditOptionId == 3
MaxEditLedger == 1
MaxEditTime == 1
MaxLedger == 2
MaxTime == 2
NumCalls == 2
NumVoters == 6
NumShareChannels == 2
MaxHour == 1
MaxMinute == 1
MaxRecomputeVotes == 2
MaxRuns == 2

\* ------------------------------------------------------- program constants
MilestoneStep == 5
MinOptions == 2
max_options == 20

Users == 1..NumUsers

\* the process_vote calls in flight at once
Calls == 1..NumCalls

\* the voters of a poll that reaches a milestone
Voters == 1..NumVoters

\* the users whose UserRole row says 'admin'; every other user has no row
Admins == {2}

\* a NULL column
None == -1

VARIABLES polls, options, user_votes, voted_users, analytics, now, last, calls,
          shares, display, sync, handlers, recompute

vars == <<polls, options, user_votes, voted_users, analytics, now, last, calls,
          shares, display, sync, handlers, recompute>>

\* ------------------------------------------------------------ bag helpers
EmptyBag == [x \in {} |-> 0]

BagAdd(b, e) == IF e \in DOMAIN b THEN [b EXCEPT ![e] = @ + 1] ELSE b @@ (e :> 1)

RECURSIVE SumOver(_, _)
SumOver(f, S) == IF S = {} THEN 0
                 ELSE LET x == CHOOSE y \in S : TRUE
                      IN f[x] + SumOver(f, S \ {x})

BagSize(b) == SumOver(b, DOMAIN b)

Restrict(f, S) == [x \in S |-> f[x]]

SetMax(S) == CHOOSE x \in S : \A y \in S : y <= x

\* SQLite INTEGER PRIMARY KEY: a new row gets max(id) + 1
NewId(S) == IF S = {} THEN 1 ELSE SetMax(S) + 1

\* ---------------------------------------------------------------- queries
\* poll.options
OptionsOf(p) == {o \in DOMAIN options : options[o].poll_id = p}

\* sum(option.vote_count for option in poll.options)
RECURSIVE SumVoteCount(_)
SumVoteCount(S) == IF S = {} THEN 0
                   ELSE LET o == CHOOSE x \in S : TRUE
                        IN options[o].vote_count + SumVoteCount(S \ {o})

TotalVotes(p) == SumVoteCount(OptionsOf(p))

\* db.query(VotedUser).filter(poll_id, user_id).first()
existing_vote(p, u) == [poll_id |-> p, user_id |-> u] \in DOMAIN voted_users

\* db.query(UserVote).filter(option_id == o).count()
VotesForOption(o) ==
    BagSize(Restrict(user_votes, {v \in DOMAIN user_votes : v.option_id = o}))

\* ------------------------------------------------------------ permissions
get_user_role(u) == IF u \in Admins THEN "admin" ELSE "user"

check_permission(u, action) ==
    CASE get_user_role(u) = "admin" ->
            action \in {"create_poll", "end_any_poll", "view_results", "vote",
                        "manage_users", "manage_settings"}
      [] get_user_role(u) = "user" ->
            action \in {"create_poll", "end_own_poll", "view_results", "vote"}
      [] OTHER -> action \in {"view_results", "vote"}

\* the last request handled: its arguments, what it returned and how many
\* view syncs (update_shared_poll_messages / update_poll_message) it started,
\* and the notifications it handed to send_notification
Called(op, p, u, o, ret, syncs, events) ==
    [op |-> op, poll |-> p, user |-> u, option |-> o, ret |-> ret,
     syncs |-> syncs, events |-> events]

\* -------------------------------------------------------------- the ledger
VoteRejectedWithoutVotedUserCheck(p, u) ==
    IF p \notin DOMAIN polls THEN TRUE ELSE polls[p].status # "active"

\* process_vote: the early returns
VoteRejected(p, u) ==
    IF p \notin DOMAIN polls THEN TRUE
    ELSE \/ polls[p].status # "active"
         \/ (existing_vote(p, u) /\ polls[p].vote_type = "single")

\* process_vote: option.vote_count += 1 when the option row exists
IncrementOption(opts, o) ==
    IF o \in DOMAIN opts
    THEN [opts EXCEPT ![o].vote_count = @ + 1]
    ELSE opts

UpsertVotedUserAlwaysInsert(vu, p, u) ==
    BagAdd(vu, [poll_id |-> p, user_id |-> u])

\* process_vote: VotedUser row added only when none exists
UpsertVotedUser(vu, p, u) ==
    IF [poll_id |-> p, user_id |-> u] \in DOMAIN vu
    THEN vu
    ELSE BagAdd(vu, [poll_id |-> p, user_id |-> u])

\* update_poll_analytics over a given state of the tables
AnalyticsRow(opts, vu, p) ==
    LET mine == {o \in DOMAIN opts : opts[o].poll_id = p}
        total == SumOver([o \in mine |-> opts[o].vote_count], mine)
        uniq == BagSize(Restrict(vu, {v \in DOMAIN vu : v.poll_id = p}))
    IN [total_votes |-> total, unique_voters |-> uniq]

\* db.query(PollAnalytics).filter(poll_id == p): the table declares no unique
\* constraint on poll_id
AnalyticsOf(tbl, p) == {a \in DOMAIN tbl : tbl[a].poll_id = p}

\* ...first(): the row readers fetch, the one with the lowest id; None when
\* the poll has no row
FirstAnalytics(tbl, p) ==
    IF AnalyticsOf(tbl, p) = {} THEN None
    ELSE CHOOSE a \in AnalyticsOf(tbl, p) : \A b \in AnalyticsOf(tbl, p) : a <= b

\* the write of update_poll_analytics: the row found is updated, or a new
\* row is added when none was found
WriteAnalytics(tbl, p, found, row) ==
    LET stored == [poll_id |-> p, total_votes |-> row.total_votes,
                   unique_voters |-> row.unique_voters]
    IN IF found = None THEN (NewId(DOMAIN tbl) :> stored) @@ tbl
       ELSE IF found \in DOMAIN tbl THEN [tbl EXCEPT ![found] = stored]
       ELSE tbl

\* update_poll_analytics run without interruption
UpsertAnalytics(tbl, p, row) == WriteAnalytics(tbl, p, FirstAnalytics(tbl, p), row)

\* whole-poll deletion: db.query(PollAnalytics).filter(poll_id == p).delete()
DeleteAnalytics(tbl, p) == Restrict(tbl, DOMAIN tbl \ AnalyticsOf(tbl, p))

\* send_notification: the notification handed over (settings default to enabled)
Notification(type, p, u, n) ==
    [type |-> type, poll_id |-> p, user_id |-> u, value |-> n]

\* notify_vote_milestone
MilestoneFires(total) == total % MilestoneStep = 0

notify_vote_milestone(p, total) ==
    IF MilestoneFires(total)
    THEN {Notification("vote_milestone", p, polls[p].creator_id, total)}
    ELSE {}

\* the close-race test with the leader's count left unchecked
CloseRaceWithoutLeaderCheck(opts, p) ==
    LET mine == {o \in DOMAIN opts : opts[o].poll_id = p}
    IN /\ Cardinality(mine) >= 2
       /\ \E a \in mine : \E b \in mine \ {a} :
            /\ \A c \in mine : opts[c].vote_count <= opts[a].vote_count
            /\ \A c \in mine \ {a} : opts[c].vote_count <= opts[b].vote_count
            /\ opts[a].vote_count - opts[b].vote_count <= 1

\* notify_close_race over the option table after the vote
CloseRace(opts, p) ==
    LET mine == {o \in DOMAIN opts : opts[o].poll_id = p}
    IN /\ Cardinality(mine) >= 2
       /\ \E a \in mine : \E b \in mine \ {a} :
            /\ \A c \in mine : opts[c].vote_count <= opts[a].vote_count
            /\ \A c \in mine \ {a} : opts[c].vote_count <= opts[b].vote_count
            /\ opts[a].vote_count - opts[b].vote_count <= 1
            /\ opts[a].vote_count > 0

notify_close_race(opts, p) ==
    IF CloseRace(opts, p)
    THEN {Notification("close_race", p, polls[p].creator_id, 0)}
    ELSE {}

\* ---------------------------------------------------------- the views
\* the Slack messages that show a poll: the message posted in the poll's own
\* channel (Poll.message_ts) and one per PollShare row
Primary(p) == [kind |-> "primary", id |-> p]

Replica(x) == [kind |-> "share", id |-> x]

\* the channel every poll of the model is created in; shares go elsewhere
HomeChannel == 0

Channels == HomeChannel..NumShareChannels

\* build_poll_blocks: what the blocks show of a poll, status and vote counts
Render(pl, opts, p) ==
    [status |-> pl[p].status,
     counts |-> [o \in {x \in DOMAIN opts : opts[x].poll_id = p} |->
                   opts[o].vote_count]]

\* query(PollShare).filter(poll_id == p, is_active == True)
ActiveShares(p) ==
    {x \in DOMAIN shares : shares[x].poll_id = p /\ shares[x].is_active}

\* is_poll_shared_in_channel
is_poll_shared_in_channel(p, ch) ==
    \/ ch = HomeChannel
    \/ \E x \in ActiveShares(p) : shares[x].channel_id = ch

\* share_poll_to_channel; posted says whether chat_postMessage succeeded
SharePoll(p, ch, u, posted) ==
    IF IF p \notin DOMAIN polls THEN TRUE
       ELSE is_poll_shared_in_channel(p, ch) \/ ~posted
    THEN /\ last' = Called("share", p, u, 0, FALSE, 0, {})
         /\ UNCHANGED <<polls, options, user_votes, voted_users, analytics,
                        now, calls, shares, display, sync, handlers,
                        recompute>>
    ELSE LET x == NewId(DOMAIN shares)
         IN /\ now' = now + 1
            /\ shares' = (x :> [poll_id |-> p, channel_id |-> ch,
                                message_ts |-> TRUE, shared_by |-> u,
                                shared_at |-> now', is_active |-> TRUE])
                         @@ shares
            /\ display' = (Replica(x) :> Render(polls, options, p)) @@ display
            /\ last' = Called("share", p, u, 0, TRUE, 0, {})
            /\ UNCHANGED <<polls, options, user_votes, voted_users, analytics,
                           calls, sync, handlers, recompute>>

\* what the Sync of the last accepted vote did: the views it called
\* chat_update for, those whose call returned, and whether handle_vote ended
\* in its except branch and sent the voter the error message
SyncOutcome(p, attempted, pushed, error) ==
    [poll |-> p, attempted |-> attempted, pushed |-> pushed, error |-> error]

NoSync == SyncOutcome(0, {}, {}, FALSE)

\* update_shared_poll_messages: 'if poll.message_ts' guards the primary push
PrimaryViews(p) == IF polls[p].message_ts THEN {Primary(p)} ELSE {}

\* the shared messages the loop reaches ('if share.message_ts')
ReplicaViews(p) ==
    {Replica(x) : x \in {y \in ActiveShares(p) : shares[y].message_ts}}

\* update_poll_message is called outside any try: its exception leaves
\* update_shared_poll_messages before the loop over the shares
SyncRaises(p, failing) == PrimaryViews(p) \cap failing # {}

SyncAttempted(p, failing) ==
    PrimaryViews(p) \cup (IF SyncRaises(p, failing) THEN {} ELSE ReplicaViews(p))

\* chat_update replaces the blocks of the messages whose call returned
Pushed(disp, views, payload) ==
    [v \in DOMAIN disp |-> IF v \in views THEN payload ELSE disp[v]]

\* the views chat_update may fail for
ViewsOf(p) == {Primary(p)} \cup {Replica(x) : x \in ActiveShares(p)}

\* handle_vote with failing the set of views whose chat_update raises:
\* process_vote, then update_shared_poll_messages, then the triggers unless
\* the Sync raised
HandleVoteSync(p, o, u, failing) ==
    IF VoteRejected(p, u)
    THEN /\ last' = Called("vote", p, u, o, FALSE, 0, {})
         /\ UNCHANGED <<polls, options, user_votes, voted_users, analytics,
                        now, calls, shares, display, sync, handlers,
                        recompute>>
    ELSE LET opts == IncrementOption(options, o)
             vu == UpsertVotedUser(voted_users, p, u)
             total == AnalyticsRow(opts, vu, p).total_votes
             attempted == SyncAttempted(p, failing)
         IN /\ voted_users' = vu
            /\ user_votes' = BagAdd(user_votes,
                                    [poll_id |-> p, user_id |-> u, option_id |-> o])
            /\ options' = opts
            /\ analytics' = UpsertAnalytics(analytics, p, AnalyticsRow(opts, vu, p))
            /\ display' = Pushed(display, attempted \ failing,
                                 Render(polls, opts, p))
            /\ sync' = SyncOutcome(p, attempted, attempted \ failing,
                                   SyncRaises(p, failing))
            /\ last' = Called("vote", p, u, o, TRUE, 1,
                              IF SyncRaises(p, failing) THEN {}
                              ELSE notify_vote_milestone(p, total)
                                     \cup notify_close_race(opts, p))
            /\ UNCHANGED <<polls, now, calls, shares, handlers, recompute>>

\* handle_vote when every chat_update returns
HandleVote(p, o, u) == HandleVoteSync(p, o, u, {})

\* a results request that clears the poll's vote records with its activity rows
ViewResultsClearingVotes(p) ==
    /\ p \in DOMAIN polls
    /\ analytics' = UpsertAnalytics(analytics, p,
                                    AnalyticsRow(options, voted_users, p))
    /\ user_votes' = Restrict(user_votes,
                              {v \in DOMAIN user_votes : v.poll_id # p})
    /\ last' = Called("results", p, 0, 0, TRUE, 0, {})
    /\ UNCHANGED <<polls, options, voted_users, now, calls, shares, display,
                   sync, handlers, recompute>>

\* the 'view results' button: generate_detailed_results runs
\* update_poll_analytics (with update_vote_activity, which rewrites only the
\* VoteActivity rows) and then reads the poll and its PollAnalytics row
ViewResults(p) ==
    IF p \notin DOMAIN polls
    THEN /\ last' = Called("results", p, 0, 0, FALSE, 0, {})
         /\ UNCHANGED <<polls, options, user_votes, voted_users, analytics,
                        now, calls, shares, display, sync, handlers,
                        recompute>>
    ELSE /\ analytics' = UpsertAnalytics(analytics, p,
                                         AnalyticsRow(options, voted_users, p))
         /\ last' = Called("results", p, 0, 0, TRUE, 0, {})
         /\ UNCHANGED <<polls, options, user_votes, voted_users, now, calls,
                        shares, display, sync, handlers, recompute>>

\* ------------------------------------------------------------- life cycle
\* can_end_poll
can_end_poll(u, p) ==
    /\ p \in DOMAIN polls
    /\ \/ check_permission(u, "end_any_poll")
       \/ (check_permission(u, "end_own_poll") /\ polls[p].creator_id = u)

EndPollRefusedWithoutCreatorCheck(p, u) == p \notin DOMAIN polls

\* end_poll: the early return
EndPollRefused(p, u) ==
    IF p \notin DOMAIN polls THEN TRUE ELSE polls[p].creator_id # u

\* end_poll: the committed write
EndedPoll(row, t) == [row EXCEPT !.status = "ended", !.ended_at = t]

\* notify_poll_ended: every VotedUser of the poll but the creator, then the creator
notify_poll_ended(p) ==
    {Notification("poll_ended", p, v.user_id, 0) :
        v \in {x \in DOMAIN voted_users :
                 x.poll_id = p /\ x.user_id # polls[p].creator_id}}
    \cup {Notification("poll_ended", p, polls[p].creator_id, 0)}

\* handle_end_poll: permission check, end_poll, then view sync and notifications
HandleEndPoll(p, u) ==
    /\ IF ~can_end_poll(u, p) \/ EndPollRefused(p, u)
       THEN /\ last' = Called("end", p, u, 0, FALSE, 0, {})
            /\ UNCHANGED <<polls, options, user_votes, voted_users, analytics,
                           now, calls, shares, display, sync, handlers,
                           recompute>>
       ELSE /\ now' = now + 1
            /\ polls' = [polls EXCEPT ![p] = EndedPoll(@, now')]
            /\ display' = Pushed(display, PrimaryViews(p) \cup ReplicaViews(p),
                                 Render(polls', options, p))
            /\ last' = Called("end", p, u, 0, TRUE, 1, notify_poll_ended(p))
            /\ UNCHANGED <<options, user_votes, voted_users, analytics, calls,
                           shares, sync, handlers, recompute>>

\* handle_admin_command, "end": an already ended poll is reported, not re-ended
AdminEnd(p, u) ==
    /\ check_permission(u, "manage_users")
    /\ IF IF p \notin DOMAIN polls THEN TRUE
          ELSE polls[p].status = "ended" \/ EndPollRefused(p, u)
       THEN /\ last' = Called("admin_end", p, u, 0, FALSE, 0, {})
            /\ UNCHANGED <<polls, options, user_votes, voted_users, analytics,
                           now, calls, shares, display, sync, handlers,
                           recompute>>
       ELSE /\ now' = now + 1
            /\ polls' = [polls EXCEPT ![p] = EndedPoll(@, now')]
            /\ last' = Called("admin_end", p, u, 0, TRUE,
                            IF polls[p].message_ts THEN 1 ELSE 0,
                            notify_poll_ended(p))
            /\ display' = Pushed(display, PrimaryViews(p),
                                 Render(polls', options, p))
            /\ UNCHANGED <<options, user_votes, voted_users, analytics, calls,
                           shares, sync, handlers, recompute>>

\* handle_admin_command, "remove": every row of the poll, then the poll
AdminRemove(p, u) ==
    /\ check_permission(u, "manage_users")
    /\ IF p \notin DOMAIN polls
       THEN /\ last' = Called("admin_remove", p, u, 0, FALSE, 0, {})
            /\ UNCHANGED <<polls, options, user_votes, voted_users, analytics,
                           now, calls, shares, display, sync, handlers,
                           recompute>>
       ELSE /\ user_votes' = Restrict(user_votes,
                               {v \in DOMAIN user_votes : v.poll_id # p})
            /\ voted_users' = Restrict(voted_users,
                               {v \in DOMAIN voted_users : v.poll_id # p})
            /\ options' = Restrict(options, DOMAIN options \ OptionsOf(p))
            /\ analytics' = DeleteAnalytics(analytics, p)
            /\ shares' = Restrict(shares,
                                  {x \in DOMAIN shares : shares[x].poll_id # p})
            /\ polls' = Restrict(polls, DOMAIN polls \ {p})
            /\ last' = Called("admin_remove", p, u, 0, TRUE, 0, {})
            /\ UNCHANGED <<now, calls, display, sync, handlers, recompute>>

\* dashboard_api.delete_poll (admin token): bulk deletes of the votes, the
\* participation rows and the options, then db.delete(poll), whose cascade
\* ("all, delete-orphan") takes the analytics row and the shares with it
DashboardDeletePoll(p) ==
    IF p \notin DOMAIN polls
    THEN /\ last' = Called("dashboard_delete", p, 0, 0, FALSE, 0, {})
         /\ UNCHANGED <<polls, options, user_votes, voted_users, analytics,
                        now, calls, shares, display, sync, handlers,
                        recompute>>
    ELSE /\ user_votes' = Restrict(user_votes,
                            {v \in DOMAIN user_votes : v.poll_id # p})
         /\ voted_users' = Restrict(voted_users,
                            {v \in DOMAIN voted_users : v.poll_id # p})
         /\ options' = Restrict(options, DOMAIN options \ OptionsOf(p))
         /\ analytics' = DeleteAnalytics(analytics, p)
         /\ shares' = Restrict(shares,
                               {x \in DOMAIN shares : shares[x].poll_id # p})
         /\ polls' = Restrict(polls, DOMAIN polls \ {p})
         /\ last' = Called("dashboard_delete", p, 0, 0, TRUE, 0, {})
         /\ UNCHANGED <<now, calls, display, sync, handlers, recompute>>

\* api/polls.delete_poll over SQLAlchemyPollRepository.delete_poll, for the
\* creator or an admin: four bulk deletes (UserVote, VotedUser, PollOption,
\* Poll); a bulk delete runs no ORM cascade and SQLite enforces no foreign key
RestDeletePoll(p, u) ==
    IF IF p \notin DOMAIN polls THEN TRUE
       ELSE polls[p].creator_id # u /\ get_user_role(u) # "admin"
    THEN /\ last' = Called("rest_delete", p, u, 0, FALSE, 0, {})
         /\ UNCHANGED <<polls, options, user_votes, voted_users, analytics,
                        now, calls, shares, display, sync, handlers,
                        recompute>>
    ELSE /\ user_votes' = Restrict(user_votes,
                            {v \in DOMAIN user_votes : v.poll_id # p})
         /\ voted_users' = Restrict(voted_users,
                            {v \in DOMAIN voted_users : v.poll_id # p})
         /\ options' = Restrict(options, DOMAIN options \ OptionsOf(p))
         /\ polls' = Restrict(polls, DOMAIN polls \ {p})
         /\ last' = Called("rest_delete", p, u, 0, TRUE, 0, {})
         /\ UNCHANGED <<analytics, shares, now, calls, display, sync,
                        handlers, recompute>>

\* the status an update request carries: absent, or any string, stored as it
\* is; datetime.now() has advanced whenever a request writes ended_at
StatusInputs == {"", "active", "ended"}

UpdatedPoll(row, status, t) ==
    IF status = "" THEN row
    ELSE [row EXCEPT !.status = status,
                     !.ended_at = IF status = "ended" THEN t ELSE @]

\* dashboard_api.update_poll (admin token): a question edit on a poll that is
\* not active fails the request before the status is written
DashboardUpdatePoll(p, with_question, status) ==
    IF IF p \notin DOMAIN polls THEN TRUE
       ELSE with_question /\ polls[p].status # "active"
    THEN /\ last' = Called("dashboard_update", p, 0, 0, FALSE, 0, {})
         /\ UNCHANGED <<polls, options, user_votes, voted_users, analytics,
                        now, calls, shares, display, sync, handlers,
                        recompute>>
    ELSE /\ now' = IF status = "ended" THEN now + 1 ELSE now
         /\ polls' = [polls EXCEPT ![p] = UpdatedPoll(@, status, now')]
         /\ last' = Called("dashboard_update", p, 0, 0, TRUE, 0, {})
         /\ UNCHANGED <<options, user_votes, voted_users, analytics, calls,
                        shares, display, sync, handlers, recompute>>

\* api/polls.update_poll over SQLAlchemyPollRepository.update_poll: creator or admin
RestUpdatePoll(p, u, status) ==
    IF IF p \notin DOMAIN polls THEN TRUE
       ELSE polls[p].creator_id # u /\ get_user_role(u) # "admin"
    THEN /\ last' = Called("rest_update", p, u, 0, FALSE, 0, {})
         /\ UNCHANGED <<polls, options, user_votes, voted_users, analytics,
                        now, calls, shares, display, sync, handlers,
                        recompute>>
    ELSE /\ now' = IF status = "ended" THEN now + 1 ELSE now
         /\ polls' = [polls EXCEPT ![p] = UpdatedPoll(@, status, now')]
         /\ last' = Called("rest_update", p, u, 0, TRUE, 0, {})
         /\ UNCHANGED <<options, user_votes, voted_users, analytics, calls,
                        shares, display, sync, handlers, recompute>>

\* ------------------------------------------------------------ duplication
\* PollManager.duplicate_poll: the copied option rows
RECURSIVE CopyOptions(_, _, _, _)
CopyOptions(opts, src, np, copy_votes) ==
    IF src = {} THEN opts
    ELSE LET o == CHOOSE x \in src : \A y \in src : x <= y
             row == [poll_id |-> np, text |-> options[o].text,
                     vote_count |-> IF copy_votes THEN options[o].vote_count
                                    ELSE 0,
                     order_index |-> options[o].order_index]
         IN CopyOptions((NewId(DOMAIN opts) :> row) @@ opts, src \ {o}, np,
                        copy_votes)

DuplicatePoll(p, creator, copy_votes) ==
    IF p \notin DOMAIN polls
    THEN /\ last' = Called("duplicate", p, creator, 0, FALSE, 0, {})
         /\ UNCHANGED <<polls, options, user_votes, voted_users, analytics,
                        now, calls, shares, display, sync, handlers,
                        recompute>>
    ELSE LET np == NewId(DOMAIN polls)
         IN /\ np <= MaxPollId
            /\ NewId(DOMAIN options) + Cardinality(OptionsOf(p)) - 1 <= MaxOptionId
            /\ polls' = (np :> [vote_type |-> polls[p].vote_type,
                                status |-> "active", creator_id |-> creator,
                                ended_at |-> None, message_ts |-> FALSE])
                        @@ polls
            /\ options' = CopyOptions(options, OptionsOf(p), np, copy_votes)
            /\ last' = Called("duplicate", p, creator, 0, TRUE, 0, {})
            /\ UNCHANGED <<user_votes, voted_users, analytics, now, calls,
                           shares, display, sync, handlers, recompute>>

\* ------------------------------------------- process_vote, query by query
\* Each call runs in its own session (autoflush off): the three queries read
\* the committed tables, the rows added and the new vote_count are written at
\* db.commit(), and update_poll_analytics follows in a session of its own.
NoTotals == [total_votes |-> 0, unique_voters |-> 0]

Idle == [pc |-> "idle", poll |-> 0, option |-> 0, user |-> 0,
         existing |-> FALSE, seen |-> None, ret |-> FALSE,
         totals |-> NoTotals, found |-> None]

\* db.query(Poll)...first() and the first early return
ReadPoll(c, p, o, u) ==
    /\ calls[c].pc = "idle"
    /\ LET closed == IF p \in DOMAIN polls THEN polls[p].status # "active"
                     ELSE TRUE
       IN calls' = [calls EXCEPT ![c] =
                      [pc |-> IF closed THEN "done" ELSE "read_voted_user",
                       poll |-> p, option |-> o, user |-> u,
                       existing |-> FALSE, seen |-> None, ret |-> FALSE,
                       totals |-> NoTotals, found |-> None]]
    /\ UNCHANGED <<polls, options, user_votes, voted_users, analytics, now,
                   last, shares, display, sync, handlers, recompute>>

\* db.query(VotedUser)...first() and the second early return
ReadVotedUser(c) ==
    /\ calls[c].pc = "read_voted_user"
    /\ LET e == existing_vote(calls[c].poll, calls[c].user)
       IN calls' = [calls EXCEPT ![c] =
                      IF e /\ polls[calls[c].poll].vote_type = "single"
                      THEN [@ EXCEPT !.pc = "done"]
                      ELSE [@ EXCEPT !.pc = "read_option", !.existing = e]]
    /\ UNCHANGED <<polls, options, user_votes, voted_users, analytics, now,
                   last, shares, display, sync, handlers, recompute>>

\* db.query(PollOption)...first(): the vote_count the increment starts from
ReadOption(c) ==
    /\ calls[c].pc = "read_option"
    /\ calls' = [calls EXCEPT ![c] =
                   [@ EXCEPT !.pc = "commit",
                             !.seen = IF calls[c].option \in DOMAIN options
                                      THEN options[calls[c].option].vote_count
                                      ELSE None]]
    /\ UNCHANGED <<polls, options, user_votes, voted_users, analytics, now,
                   last, shares, display, sync, handlers, recompute>>

\* process_vote going on to update_poll_analytics with nothing committed
CommitSkipped(c) ==
    /\ calls[c].pc = "commit"
    /\ calls' = [calls EXCEPT ![c].pc = "analytics"]
    /\ UNCHANGED <<polls, options, user_votes, voted_users, analytics, now,
                   last, shares, display, sync, handlers, recompute>>

\* db.commit(): INSERT VotedUser (when none was seen), INSERT UserVote,
\* UPDATE poll_options SET vote_count = <value read + 1>
Commit(c) ==
    /\ calls[c].pc = "commit"
    /\ voted_users' =
         IF calls[c].existing THEN voted_users
         ELSE BagAdd(voted_users,
                     [poll_id |-> calls[c].poll, user_id |-> calls[c].user])
    /\ user_votes' = BagAdd(user_votes,
                            [poll_id |-> calls[c].poll, user_id |-> calls[c].user,
                             option_id |-> calls[c].option])
    /\ options' = IF calls[c].seen = None THEN options
                  ELSE [options EXCEPT
                          ![calls[c].option].vote_count = calls[c].seen + 1]
    /\ calls' = [calls EXCEPT ![c].pc = "analytics"]
    /\ UNCHANGED <<polls, analytics, now, last, shares, display, sync,
                   handlers, recompute>>

\* update_poll_analytics(poll_id), then return True
UpdateAnalytics(c) ==
    /\ calls[c].pc = "analytics"
    /\ analytics' = UpsertAnalytics(analytics, calls[c].poll,
                        AnalyticsRow(options, voted_users, calls[c].poll))
    /\ calls' = [calls EXCEPT ![c] = [@ EXCEPT !.pc = "done", !.ret = TRUE]]
    /\ UNCHANGED <<polls, options, user_votes, voted_users, now, last, shares,
                   display, sync, handlers, recompute>>

\* update_poll_analytics query by query. Its reads: the totals, and
\* db.query(PollAnalytics).filter(poll_id == poll_id).first()
ComputeAnalytics(c) ==
    /\ calls[c].pc = "analytics"
    /\ calls' = [calls EXCEPT ![c] =
                  [@ EXCEPT !.pc = "analytics_commit",
                            !.totals = AnalyticsRow(options, voted_users,
                                                    calls[c].poll),
                            !.found = FirstAnalytics(analytics, calls[c].poll)]]
    /\ UNCHANGED <<polls, options, user_votes, voted_users, analytics, now,
                   last, shares, display, sync, handlers, recompute>>

\* its write: the row found is updated, or PollAnalytics(...) is added when
\* the query found none; db.commit()
CommitAnalytics(c) ==
    /\ calls[c].pc = "analytics_commit"
    /\ analytics' = WriteAnalytics(analytics, calls[c].poll, calls[c].found,
                                   calls[c].totals)
    /\ calls' = [calls EXCEPT ![c] = [@ EXCEPT !.pc = "done", !.ret = TRUE]]
    /\ UNCHANGED <<polls, options, user_votes, voted_users, now, last, shares,
                   display, sync, handlers, recompute>>

\* generate_detailed_results on a 'view results' request: the poll is
\* looked up, then update_poll_analytics(poll_id) runs
StartResults(c, p) ==
    /\ calls[c].pc = "idle"
    /\ calls' = [calls EXCEPT ![c] =
                  [Idle EXCEPT !.pc = IF p \in DOMAIN polls THEN "analytics"
                                      ELSE "done",
                               !.poll = p]]
    /\ UNCHANGED <<polls, options, user_votes, voted_users, analytics, now,
                   last, shares, display, sync, handlers, recompute>>

\* -------------------------------------- handle_vote after process_vote
\* What follows process_vote(...) == True in handle_vote, call by call to
\* the database and to Slack: update_poll_message renders the poll it has
\* just read and then pushes, update_shared_poll_messages renders the poll
\* object of its own session for the shares and pushes, and the triggers
\* read the counts last.
\* no blocks built yet
NoPayload == [status |-> "", counts |-> << >>]

Waiting == [stage |-> "none", payload |-> NoPayload, views |-> {},
            sent |-> {}]

\* process_vote returned True to handler c
VoteAccepted(c) == calls[c].pc = "done" /\ calls[c].ret

\* update_poll_message: db.query(Poll) and build_poll_blocks(poll)
RenderPrimary(c) ==
    /\ VoteAccepted(c)
    /\ handlers[c].stage = "none"
    /\ handlers' = [handlers EXCEPT ![c] =
                      IF calls[c].poll \in DOMAIN polls
                      THEN [stage |-> "push_primary",
                            payload |-> Render(polls, options, calls[c].poll),
                            views |-> PrimaryViews(calls[c].poll), sent |-> {}]
                      ELSE [stage |-> "done", payload |-> NoPayload, views |-> {},
                            sent |-> {}]]
    /\ UNCHANGED <<polls, options, user_votes, voted_users, analytics, now,
                   last, calls, shares, display, sync, recompute>>

\* update_poll_message: app.client.chat_update for the poll's own message
PushPrimary(c) ==
    /\ handlers[c].stage = "push_primary"
    /\ display' = Pushed(display, handlers[c].views, handlers[c].payload)
    /\ handlers' = [handlers EXCEPT ![c].stage = "render_shares"]
    /\ UNCHANGED <<polls, options, user_votes, voted_users, analytics, now,
                   last, calls, shares, sync, recompute>>

\* update_shared_poll_messages: the query of the active shares and the first
\* build_poll_blocks(poll), which loads poll.options for every later one; the
\* status is the one the poll had when the Sync began
RenderShares(c) ==
    /\ handlers[c].stage = "render_shares"
    /\ handlers' = [handlers EXCEPT ![c] =
                      IF calls[c].poll \in DOMAIN polls
                      THEN [stage |-> "push_shares",
                            payload |-> [Render(polls, options, calls[c].poll)
                                           EXCEPT !.status =
                                                    handlers[c].payload.status],
                            views |-> ReplicaViews(calls[c].poll), sent |-> {}]
                      ELSE [stage |-> "notify", payload |-> NoPayload, views |-> {},
                            sent |-> {}]]
    /\ UNCHANGED <<polls, options, user_votes, voted_users, analytics, now,
                   last, calls, shares, display, sync, recompute>>

\* update_shared_poll_messages: the chat_update of every share of the loop
PushShares(c) ==
    /\ handlers[c].stage = "push_shares"
    /\ display' = Pushed(display, handlers[c].views, handlers[c].payload)
    /\ handlers' = [handlers EXCEPT ![c].stage = "notify"]
    /\ UNCHANGED <<polls, options, user_votes, voted_users, analytics, now,
                   last, calls, shares, sync, recompute>>

\* the total_votes query, notify_vote_milestone and notify_close_race
NotifyTriggers(c) ==
    /\ handlers[c].stage = "notify"
    /\ LET events == IF calls[c].poll \in DOMAIN polls
                     THEN notify_vote_milestone(calls[c].poll,
                                                TotalVotes(calls[c].poll))
                            \cup notify_close_race(options, calls[c].poll)
                     ELSE {}
       IN /\ handlers' = [handlers EXCEPT ![c].stage = "done",
                                          ![c].sent = events]
          /\ last' = Called("vote", calls[c].poll, calls[c].user,
                            calls[c].option, TRUE, 1, events)
    /\ UNCHANGED <<polls, options, user_votes, voted_users, analytics, now,
                   calls, shares, display, sync, recompute>>

\* ------------------------------------------------- update_poll_analytics
\* The metrics update_poll_analytics computes from the UserVote rows of a
\* poll, taken in the order poll.user_votes returns them (the relationship has
\* no order_by). A row carries voted_at as hour and minute of the day the poll
\* was created on; created_at is that day's midnight.
MinutesPerHour == 60

Hours == 0..MaxHour

Minutes == 0..MaxMinute

\* (vote.voted_at - poll.created_at).total_seconds() / 60
response_time(row) == row.hour * MinutesPerHour + row.minute

RECURSIVE SumSeq(_)
SumSeq(q) == IF q = << >> THEN 0 ELSE Head(q) + SumSeq(Tail(q))

\* sum(response_times) / len(response_times), in whole minutes
avg_response_time(rows) ==
    IF rows = << >> THEN 0
    ELSE SumSeq([i \in DOMAIN rows |-> response_time(rows[i])]) \div Len(rows)

\* the dict hour_counts after the loop over the rows: its keys in the order
\* they were first inserted, each with its count
RECURSIVE hour_counts(_)
hour_counts(rows) ==
    IF rows = << >> THEN << >>
    ELSE LET before == hour_counts(SubSeq(rows, 1, Len(rows) - 1))
             hour == rows[Len(rows)].hour
         IN IF \E i \in DOMAIN before : before[i].hour = hour
            THEN [i \in DOMAIN before |->
                    IF before[i].hour = hour
                    THEN [before[i] EXCEPT !.count = @ + 1]
                    ELSE before[i]]
            ELSE Append(before, [hour |-> hour, count |-> 1])

\* max(hour_counts, key=hour_counts.get): the first key, in the dict's order,
\* whose count is the highest; None without votes
peak_voting_hour(rows) ==
    LET hc == hour_counts(rows)
    IN IF hc = << >> THEN None
       ELSE LET best == SetMax({hc[i].count : i \in DOMAIN hc})
                first == CHOOSE i \in DOMAIN hc :
                           /\ hc[i].count = best
                           /\ \A j \in DOMAIN hc : hc[j].count = best => i <= j
            IN hc[first].hour

\* min(100.0, (unique_voters / max(1, total_votes)) * 100), in whole percent
participation_rate(unique, total) ==
    LET rate == (unique * 100) \div (IF total < 1 THEN 1 ELSE total)
    IN IF rate > 100 THEN 100 ELSE rate

\* the five metrics written to the PollAnalytics row
AnalyticsSnapshot(opts, vu, p, rows) ==
    LET row == AnalyticsRow(opts, vu, p)
    IN [total_votes |-> row.total_votes,
        unique_voters |-> row.unique_voters,
        participation_rate |->
            participation_rate(row.unique_voters, row.total_votes),
        avg_response_time |-> avg_response_time(rows),
        peak_voting_hour |-> peak_voting_hour(rows)]

\* no recompute observed: the ledger rows with their times, and the snapshots
\* successive runs computed
NoRecompute == [rows |-> << >>, runs |-> << >>]

\* one run of update_poll_analytics(p), the store returning the rows of the
\* ledger in the order given
UpdatePollAnalytics(p, order) ==
    LET returned == [i \in DOMAIN order |-> recompute.rows[order[i]]]
        snapshot == AnalyticsSnapshot(options, voted_users, p, returned)
    IN /\ p \in DOMAIN polls
       /\ recompute' = [recompute EXCEPT !.runs = Append(@, snapshot)]
       /\ analytics' = UpsertAnalytics(analytics, p, snapshot)
       /\ last' = Called("recompute", p, 0, 0, TRUE, 0, {})
       /\ UNCHANGED <<polls, options, user_votes, voted_users, now, calls,
                      shares, display, sync, handlers>>

\* create_poll through the poll-creation flow: one active poll, two options
Init ==
    /\ \E vt \in {"single", "multiple"} : \E c \in {1} \cup Admins :
         polls = (1 :> [vote_type |-> vt, status |-> "active", creator_id |-> c,
                        ended_at |-> None, message_ts |-> TRUE])
    /\ options = (1 :> [poll_id |-> 1, text |-> "pizza", vote_count |-> 0,
                        order_index |-> 0])
              @@ (2 :> [poll_id |-> 1, text |-> "sushi", vote_count |-> 0,
                        order_index |-> 1])
    /\ user_votes = EmptyBag
    /\ voted_users = EmptyBag
    /\ analytics = EmptyBag
    /\ now = 0
    /\ last = Called("init", 0, 0, 0, FALSE, 0, {})
    /\ calls = [c \in Calls |-> Idle]
    /\ shares = EmptyBag
    /\ display = (Primary(1) :> Render(polls, options, 1))
    /\ sync = NoSync
    /\ handlers = [c \in Calls |-> Waiting]
    /\ recompute = NoRecompute

\* ---------------------------------------------------------- option edits
\* the option texts requests carry: blank, differing in case only, padded
TextInputs == {"  ", "Pizza", "tacos "}

\* str.strip() on those texts
Strip(t) == CASE t = "  " -> ""
              [] t = "tacos " -> "tacos"
              [] OTHER -> t

\* str.lower() on those texts
Lower(t) == IF t = "Pizza" THEN "pizza" ELSE t

\* poll.creator_id != user_id and user_role != 'admin'
EditDenied(p, u) == polls[p].creator_id # u /\ get_user_role(u) # "admin"

\* [opt.text.lower().strip() for opt in poll.options if opt.id != skip]
ExistingTexts(p, skip) ==
    {Strip(Lower(options[x].text)) : x \in OptionsOf(p) \ {skip}}

\* max([opt.order_index for opt in poll.options], default=0)
MaxOrder(p) ==
    IF OptionsOf(p) = {} THEN 0
    ELSE SetMax({options[x].order_index : x \in OptionsOf(p)})

\* PollManager.add_poll_option: every early return
AddOptionRefused(p, text, u) ==
    IF Strip(text) = "" THEN TRUE
    ELSE IF p \notin DOMAIN polls THEN TRUE
    ELSE \/ polls[p].status # "active"
         \/ EditDenied(p, u)
         \/ Cardinality(OptionsOf(p)) >= max_options
         \/ Lower(Strip(text)) \in ExistingTexts(p, 0)

AddPollOption(p, text, u) ==
    IF AddOptionRefused(p, text, u)
    THEN /\ last' = Called("add_option", p, u, 0, FALSE, 0, {})
         /\ UNCHANGED <<polls, options, user_votes, voted_users, analytics,
                        now, calls, shares, display, sync, handlers,
                        recompute>>
    ELSE /\ options' = (NewId(DOMAIN options) :>
                          [poll_id |-> p, text |-> Strip(text), vote_count |-> 0,
                           order_index |-> MaxOrder(p) + 1]) @@ options
         /\ last' = Called("add_option", p, u, NewId(DOMAIN options), TRUE, 0, {})
         /\ UNCHANGED <<polls, user_votes, voted_users, analytics, now, calls,
                        shares, display, sync, handlers, recompute>>

\* query(PollOption).filter(id == option_id, poll_id == poll_id).first()
OptionInPoll(p, o) ==
    IF o \in DOMAIN options THEN options[o].poll_id = p ELSE FALSE

RemoveOptionRefusedWithoutVoteCheck(p, o, u) ==
    IF p \notin DOMAIN polls THEN TRUE
    ELSE IF ~OptionInPoll(p, o) THEN TRUE
    ELSE \/ polls[p].status # "active"
         \/ EditDenied(p, u)
         \/ Cardinality(OptionsOf(p)) <= MinOptions

\* PollManager.remove_poll_option: every early return
RemoveOptionRefused(p, o, u) ==
    IF p \notin DOMAIN polls THEN TRUE
    ELSE IF ~OptionInPoll(p, o) THEN TRUE
    ELSE \/ polls[p].status # "active"
         \/ EditDenied(p, u)
         \/ options[o].vote_count > 0
         \/ Cardinality(OptionsOf(p)) <= MinOptions

RemovePollOption(p, o, u) ==
    IF RemoveOptionRefused(p, o, u)
    THEN /\ last' = Called("remove_option", p, u, o, FALSE, 0, {})
         /\ UNCHANGED <<polls, options, user_votes, voted_users, analytics,
                        now, calls, shares, display, sync, handlers,
                        recompute>>
    ELSE /\ options' = Restrict(options, DOMAIN options \ {o})
         /\ last' = Called("remove_option", p, u, o, TRUE, 0, {})
         /\ UNCHANGED <<polls, user_votes, voted_users, analytics, now, calls,
                        shares, display, sync, handlers, recompute>>

\* remove_poll_option request by request, each in a session of its own: the
\* queries and every check up to len(poll.options) <= 2
CheckRemoveOption(c, p, o, u) ==
    /\ calls[c].pc = "idle"
    /\ calls' = [calls EXCEPT ![c] =
                  [Idle EXCEPT !.pc = IF RemoveOptionRefused(p, o, u)
                                      THEN "done" ELSE "remove_commit",
                               !.poll = p, !.option = o, !.user = u]]
    /\ UNCHANGED <<polls, options, user_votes, voted_users, analytics, now,
                   last, shares, display, sync, handlers, recompute>>

\* db.delete(option); db.commit(); return True
CommitRemoveOption(c) ==
    /\ calls[c].pc = "remove_commit"
    /\ options' = Restrict(options, DOMAIN options \ {calls[c].option})
    /\ calls' = [calls EXCEPT ![c] = [@ EXCEPT !.pc = "done", !.ret = TRUE]]
    /\ UNCHANGED <<polls, user_votes, voted_users, analytics, now, last,
                   shares, display, sync, handlers, recompute>>

\* PollManager.edit_poll_option: every early return (an option with votes may
\* be renamed)
EditOptionRefused(p, o, text, u) ==
    IF Strip(text) = "" THEN TRUE
    ELSE IF p \notin DOMAIN polls THEN TRUE
    ELSE IF ~OptionInPoll(p, o) THEN TRUE
    ELSE \/ polls[p].status # "active"
         \/ EditDenied(p, u)
         \/ Lower(Strip(text)) \in ExistingTexts(p, o)

EditPollOption(p, o, text, u) ==
    IF EditOptionRefused(p, o, text, u)
    THEN /\ last' = Called("edit_option", p, u, o, FALSE, 0, {})
         /\ UNCHANGED <<polls, options, user_votes, voted_users, analytics,
                        now, calls, shares, display, sync, handlers,
                        recompute>>
    ELSE /\ options' = [options EXCEPT ![o].text = Strip(text)]
         /\ last' = Called("edit_option", p, u, o, TRUE, 0, {})
         /\ UNCHANGED <<polls, user_votes, voted_users, analytics, now, calls,
                        shares, display, sync, handlers, recompute>>

\* the set of a list's elements
Range(order) == {order[i] : i \in DOMAIN order}

ReorderRefusedWithoutStatusCheck(p, order, u) ==
    IF p \notin DOMAIN polls THEN TRUE
    ELSE \/ EditDenied(p, u)
         \/ Range(order) # OptionsOf(p)

\* PollManager.reorder_poll_options: every early return
ReorderRefused(p, order, u) ==
    IF p \notin DOMAIN polls THEN TRUE
    ELSE \/ polls[p].status # "active"
         \/ EditDenied(p, u)
         \/ Range(order) # OptionsOf(p)

\* for new_index, option_id in enumerate(option_order): a later position of a
\* repeated id overwrites the earlier one
RECURSIVE ApplyOrder(_, _, _)
ApplyOrder(opts, order, i) ==
    IF i > Len(order) THEN opts
    ELSE ApplyOrder([opts EXCEPT ![order[i]].order_index = i - 1], order, i + 1)

ReorderPollOptions(p, order, u) ==
    IF ReorderRefused(p, order, u)
    THEN /\ last' = Called("reorder", p, u, 0, FALSE, 0, {})
         /\ UNCHANGED <<polls, options, user_votes, voted_users, analytics,
                        now, calls, shares, display, sync, handlers,
                        recompute>>
    ELSE /\ options' = ApplyOrder(options, order, 1)
         /\ last' = Called("reorder", p, u, 0, TRUE, 0, {})
         /\ UNCHANGED <<polls, user_votes, voted_users, analytics, now, calls,
                        shares, display, sync, handlers, recompute>>

\* request arguments: every id up to one past the highest allocated, so that a
\* request may name an existing row, a deleted row or a row never created
PollInputs == 1..NewId(DOMAIN polls)

OptionInputs == 1..NewId(DOMAIN options)

\* the orders a reorder request may carry: every permutation of the poll's
\* options, and one order each with a repeated id, with an id left out and
\* with an id that is not the poll's
Perms(S) ==
    {q \in [1..Cardinality(S) -> S] : \A a \in S : \E i \in DOMAIN q : q[i] = a}

OrderInputs(p) ==
    LET S == IF p \in DOMAIN polls THEN OptionsOf(p) ELSE {}
        base == CHOOSE q \in Perms(S) : TRUE
    IN Perms(S)
       \cup (IF S = {} THEN {} ELSE {Append(base, base[1]), Tail(base)})
       \cup {Append(base, NewId(DOMAIN options))}

\* option ids stay within cap: an accepted add needs room for its row
OptionRoom(p, t, u, cap) ==
    IF AddOptionRefused(p, t, u) THEN TRUE ELSE NewId(DOMAIN options) <= cap

\* the clock stays within cap: a request that writes ended_at needs a later time
ClockRoom(cap) == now < cap

\* the ledger stays within cap rows: an accepted vote needs room for its row
LedgerRoom(p, u, cap) ==
    IF VoteRejected(p, u) THEN TRUE ELSE BagSize(user_votes) < cap

\* the sets of views whose chat_update raises during one Sync
FailingInputs(p) == IF p \in DOMAIN polls THEN SUBSET ViewsOf(p) ELSE {{}}

\* ------------------------------------------------------------------------
\* Spec: voting and the poll life cycle, with every path that writes Poll.status
Next ==
    \/ \E p \in PollInputs, o \in OptionInputs, u \in Users :
         LedgerRoom(p, u, MaxLedger) /\ HandleVote(p, o, u)
    \/ \E p \in PollInputs, u \in Users :
         ClockRoom(MaxTime) /\ HandleEndPoll(p, u)
    \/ \E p \in PollInputs, u \in Users : ClockRoom(MaxTime) /\ AdminEnd(p, u)
    \/ \E p \in PollInputs, u \in Users : AdminRemove(p, u)
    \/ \E p \in PollInputs, q \in BOOLEAN, s \in StatusInputs :
         ClockRoom(MaxTime) /\ DashboardUpdatePoll(p, q, s)
    \/ \E p \in PollInputs, u \in Users, s \in StatusInputs :
         ClockRoom(MaxTime) /\ RestUpdatePoll(p, u, s)

Spec == Init /\ [][Next]_vars

\* SpecDup: voting with poll duplication
NextDup ==
    \/ \E p \in PollInputs, o \in OptionInputs, u \in Users :
         LedgerRoom(p, u, MaxLedger) /\ HandleVote(p, o, u)
    \/ \E p \in PollInputs, u \in Users, cv \in BOOLEAN : DuplicatePoll(p, u, cv)

SpecDup == Init /\ [][NextDup]_vars

\* SpecEdit: voting and ending with options added and removed
NextEdit ==
    \/ \E p \in DOMAIN polls, u \in Users : \E o \in OptionsOf(p) :
         LedgerRoom(p, u, MaxEditLedger) /\ HandleVote(p, o, u)
    \/ \E p \in PollInputs, u \in Users :
         ClockRoom(MaxEditTime) /\ HandleEndPoll(p, u)
    \/ \E p \in PollInputs, t \in TextInputs, u \in Users :
         OptionRoom(p, t, u, MaxEditOptionId) /\ AddPollOption(p, t, u)
    \/ \E p \in PollInputs, o \in OptionInputs, u \in Users :
         RemovePollOption(p, o, u)

InitSingle == Init /\ polls[1].vote_type = "single"

SpecEdit == InitSingle /\ [][NextEdit]_vars

\* SpecClosed: ending a poll with every option edit of PollManager
NextClosed ==
    \/ \E p \in PollInputs, u \in Users :
         ClockRoom(MaxEditTime) /\ HandleEndPoll(p, u)
    \/ \E p \in PollInputs, t \in TextInputs, u \in Users :
         OptionRoom(p, t, u, MaxEditOptionId) /\ AddPollOption(p, t, u)
    \/ \E p \in PollInputs, o \in OptionInputs, u \in Users :
         RemovePollOption(p, o, u)
    \/ \E p \in PollInputs, o \in OptionInputs, t \in TextInputs, u \in Users :
         EditPollOption(p, o, t, u)
    \/ \E p \in PollInputs, u \in Users : \E order \in OrderInputs(p) :
         ReorderPollOptions(p, order, u)

SpecClosed == InitSingle /\ [][NextClosed]_vars

\* SpecVote: process_vote calls running at once, interleaved query by query
NextVote ==
    \/ \E c \in Calls, p \in PollInputs, o \in OptionInputs, u \in Users :
         ReadPoll(c, p, o, u)
    \/ \E c \in Calls : ReadVotedUser(c)
    \/ \E c \in Calls : ReadOption(c)
    \/ \E c \in Calls : Commit(c)
    \/ \E c \in Calls : UpdateAnalytics(c)

SpecVote == Init /\ [][NextVote]_vars

\* SpecRace: process_vote calls interleaved with end-poll requests
NextRace ==
    \/ \E c \in Calls, p \in PollInputs, o \in OptionInputs, u \in Users :
         ReadPoll(c, p, o, u)
    \/ \E c \in Calls : ReadVotedUser(c)
    \/ \E c \in Calls : ReadOption(c)
    \/ \E c \in Calls : Commit(c)
    \/ \E c \in Calls : UpdateAnalytics(c)
    \/ \E p \in PollInputs, u \in Users :
         ClockRoom(MaxEditTime) /\ HandleEndPoll(p, u)

SpecRace == Init /\ [][NextRace]_vars

\* SpecSnapshot: votes and 'view results' requests on one poll, with
\* update_poll_analytics interleaved query by query
NextSnapshot ==
    \/ \E c \in Calls : \E p \in DOMAIN polls : \E o \in OptionsOf(p) :
         \E u \in Users : ReadPoll(c, p, o, u)
    \/ \E c \in Calls, p \in PollInputs : StartResults(c, p)
    \/ \E c \in Calls : ReadVotedUser(c)
    \/ \E c \in Calls : ReadOption(c)
    \/ \E c \in Calls : Commit(c)
    \/ \E c \in Calls : ComputeAnalytics(c)
    \/ \E c \in Calls : CommitAnalytics(c)

SpecSnapshot == InitSingle /\ [][NextSnapshot]_vars

\* SpecOptions: options added to a created poll while remove_poll_option
\* requests run at once
NextOptions ==
    \/ \E p \in PollInputs, t \in TextInputs, u \in Users :
         OptionRoom(p, t, u, MaxOptionId) /\ AddPollOption(p, t, u)
    \/ \E c \in Calls, p \in PollInputs, o \in OptionInputs, u \in Users :
         CheckRemoveOption(c, p, o, u)
    \/ \E c \in Calls : CommitRemoveOption(c)

SpecOptions == Init /\ [][NextOptions]_vars

\* SpecMilestone: the voters of one single-choice poll voting one after another
NextMilestone ==
    \E p \in DOMAIN polls, o \in OptionInputs, u \in Voters : HandleVote(p, o, u)

SpecMilestone == InitSingle /\ [][NextMilestone]_vars

\* ------------------------------------------------------------ properties
\* C1: after every committed mutation the cached vote_count of every option
\* equals the number of UserVote records whose option_id is that option
VoteCountMatchesLedger ==
    \A o \in DOMAIN options : options[o].vote_count = VotesForOption(o)

\* C4: on a multiple-choice poll there is at most one UserVote record per
\* (poll, voter, option); a repeated vote for the same option adds no record
OneVotePerOptionOnMultiple ==
    \A v \in DOMAIN user_votes :
        IF v.poll_id \in DOMAIN polls
        THEN polls[v.poll_id].vote_type = "multiple" => user_votes[v] <= 1
        ELSE TRUE

\* C5: on a single-choice poll a vote by a voter who already has a VotedUser
\* row for the poll returns False and leaves the vote counts, the UserVote
\* records and the VotedUser rows as they were
RepeatedSingleVoteRejected ==
    [][(/\ last'.op = "vote"
        /\ IF last'.poll \in DOMAIN polls
           THEN /\ polls[last'.poll].vote_type = "single"
                /\ existing_vote(last'.poll, last'.user)
           ELSE FALSE)
       => (/\ last'.ret = FALSE
           /\ options' = options
           /\ user_votes' = user_votes
           /\ voted_users' = voted_users)]_vars

\* a rejected vote on an active single-choice poll by a voter recorded in it
RepeatedSingleVoteSeen ==
    /\ last.op = "vote"
    /\ last.ret = FALSE
    /\ IF last.poll \in DOMAIN polls
       THEN /\ polls[last.poll].vote_type = "single"
            /\ polls[last.poll].status = "active"
            /\ existing_vote(last.poll, last.user)
            /\ OptionInPoll(last.poll, last.option)
            /\ BagSize(user_votes) = 1
       ELSE FALSE

\* C6: over every request that writes Poll.status, a poll that is 'ended'
\* stays 'ended' for as long as it exists
StatusMonotonic ==
    [][\A p \in DOMAIN polls :
         (polls[p].status = "ended" /\ p \in DOMAIN polls')
            => polls'[p].status = "ended"]_vars

\* C7: an end-poll request on a poll that is already ended is refused and
\* changes nothing: ended_at stays, no view sync starts, nobody is notified
SecondEndPollRefused ==
    [][(/\ last'.op = "end"
        /\ IF last'.poll \in DOMAIN polls
           THEN polls[last'.poll].status = "ended"
           ELSE FALSE)
       => (/\ last'.ret = FALSE
           /\ polls' = polls
           /\ last'.syncs = 0
           /\ last'.events = {})]_vars

\* C8: a remove_poll_option request for an option with votes fails and leaves
\* the options as they were, whoever asks
VotedOptionNeverRemoved ==
    [][(/\ last'.op = "remove_option"
        /\ IF OptionInPoll(last'.poll, last'.option)
           THEN options[last'.option].vote_count > 0
           ELSE FALSE)
       => (last'.ret = FALSE /\ options' = options)]_vars

\* a refused removal that only the votes of the option can explain: the poll
\* is active, the caller may edit it and it has options to spare
VotedOptionRemovalSeen ==
    /\ last.op = "remove_option"
    /\ last.ret = FALSE
    /\ IF last.poll \in DOMAIN polls /\ OptionInPoll(last.poll, last.option)
       THEN /\ options[last.option].vote_count > 0
            /\ polls[last.poll].status = "active"
            /\ ~EditDenied(last.poll, last.user)
            /\ Cardinality(OptionsOf(last.poll)) > MinOptions
       ELSE FALSE

\* C9: every add, edit, remove and reorder request on an ended poll fails and
\* leaves the options (set, text, order_index) as they were, whoever asks
EndedPollOptionsFrozen ==
    [][(/\ last'.op \in {"add_option", "edit_option", "remove_option", "reorder"}
        /\ IF last'.poll \in DOMAIN polls
           THEN polls[last'.poll].status = "ended"
           ELSE FALSE)
       => (last'.ret = FALSE /\ options' = options)]_vars

\* a refused removal that only the ended status can explain: the option is the
\* poll's, has no votes, the caller may edit and the poll has options to spare
EndedPollEditSeen ==
    /\ last.op = "remove_option"
    /\ last.ret = FALSE
    /\ IF last.poll \in DOMAIN polls /\ OptionInPoll(last.poll, last.option)
       THEN /\ polls[last.poll].status = "ended"
            /\ options[last.option].vote_count = 0
            /\ ~EditDenied(last.poll, last.user)
            /\ Cardinality(OptionsOf(last.poll)) > MinOptions
       ELSE FALSE

\* the calls that have returned True
Accepted == {c \in Calls : calls[c].pc = "done" /\ calls[c].ret}

AllReturned == \A c \in Calls : calls[c].pc = "done"

\* C2: when every concurrent process_vote call was made by the same voter on
\* the same active single-choice poll, for options of that poll, exactly one
\* call is accepted, one UserVote record exists for (poll, voter) and the
\* poll's vote counts have grown by one in total
OneAcceptedPerSingleVoter ==
    \A p \in DOMAIN polls, u \in Users :
        (/\ polls[p].vote_type = "single"
         /\ AllReturned
         /\ \A c \in Calls : /\ calls[c].poll = p
                             /\ calls[c].user = u
                             /\ calls[c].option \in OptionsOf(p))
        => /\ Cardinality(Accepted) = 1
           /\ BagSize(Restrict(user_votes,
                   {v \in DOMAIN user_votes : v.poll_id = p /\ v.user_id = u})) = 1
           /\ TotalVotes(p) = 1

\* C3: when every concurrent process_vote call was accepted, the voters are
\* distinct and all chose the same option, the option's vote_count has grown
\* by the number of calls
NoLostUpdate ==
    \A o \in DOMAIN options :
        (/\ AllReturned
         /\ Accepted = Calls
         /\ \A c \in Calls : calls[c].option = o
         /\ \A c, d \in Calls : c # d => calls[c].user # calls[d].user)
        => options[o].vote_count = NumCalls

\* C10: a VoteMilestone(5) notification is sent only by the vote that raises
\* the poll's total to 5, never by a later evaluation of a total that is
\* already 5
MilestoneOnlyOnCrossing ==
    [][\A e \in last'.events :
         (e.type = "vote_milestone" /\ e.value = MilestoneStep)
            => TotalVotes(e.poll_id) < MilestoneStep]_vars

\* C16: an accepted vote adds exactly one UserVote record for (poll, voter,
\* option), leaves a VotedUser row for (poll, voter), raises the chosen
\* option's vote_count by one and leaves every other option as it was
AcceptedVoteWrites ==
    [][(last'.op = "vote" /\ last'.ret)
       => (/\ user_votes' = BagAdd(user_votes,
                                   [poll_id |-> last'.poll, user_id |-> last'.user,
                                    option_id |-> last'.option])
           /\ [poll_id |-> last'.poll, user_id |-> last'.user]
                 \in DOMAIN voted_users'
           /\ IF last'.option \in DOMAIN options
              THEN options' = [options EXCEPT ![last'.option].vote_count = @ + 1]
              ELSE FALSE)]_vars

\* C17: on an active multiple-choice poll a vote for an option the voter has
\* not chosen yet is accepted and adds one UserVote record, and the voter has
\* exactly one VotedUser row for the poll however many options they chose
MultipleChoiceVotesAccepted ==
    [][(/\ last'.op = "vote"
        /\ IF last'.poll \in DOMAIN polls
           THEN /\ polls[last'.poll].vote_type = "multiple"
                /\ polls[last'.poll].status = "active"
                /\ [poll_id |-> last'.poll, user_id |-> last'.user,
                    option_id |-> last'.option] \notin DOMAIN user_votes
           ELSE FALSE)
       => (/\ last'.ret
           /\ user_votes' = BagAdd(user_votes,
                                   [poll_id |-> last'.poll, user_id |-> last'.user,
                                    option_id |-> last'.option])
           /\ voted_users'[[poll_id |-> last'.poll, user_id |-> last'.user]] = 1)]_vars

\* a voter with UserVote records for two options of a multiple-choice poll and
\* one VotedUser row
TwoOptionsOneVotedUser ==
    \E p \in DOMAIN polls, u \in Users :
        /\ polls[p].vote_type = "multiple"
        /\ \E a \in OptionsOf(p) : \E b \in OptionsOf(p) \ {a} :
             /\ [poll_id |-> p, user_id |-> u, option_id |-> a] \in DOMAIN user_votes
             /\ [poll_id |-> p, user_id |-> u, option_id |-> b] \in DOMAIN user_votes
        /\ existing_vote(p, u)
        /\ voted_users[[poll_id |-> p, user_id |-> u]] = 1
        /\ last.op = "vote" /\ last.ret /\ last.user = u

EndedPollCountsFrozen ==
    [][\A p \in DOMAIN polls \cap DOMAIN polls' :
         polls[p].status = "ended"
         => (/\ \A o \in OptionsOf(p) :
                  IF o \in DOMAIN options'
                  THEN options'[o].vote_count = options[o].vote_count
                  ELSE TRUE
             /\ \A v \in DOMAIN user_votes' :
                  v.poll_id = p
                  => (IF v \in DOMAIN user_votes
                      THEN user_votes'[v] = user_votes[v]
                      ELSE FALSE)
             /\ \A v \in DOMAIN voted_users' :
                  v.poll_id = p
                  => (IF v \in DOMAIN voted_users
                      THEN voted_users'[v] = voted_users[v]
                      ELSE FALSE))]_vars

\* ------------------------------------------------------------------------
\* SpecViews: votes on a poll shared to other channels, with chat_update
\* failing for any set of the poll's views
NextViews ==
    \/ \E p \in PollInputs, o \in OptionInputs, u \in Users :
         \E failing \in FailingInputs(p) :
           LedgerRoom(p, u, MaxEditLedger) /\ HandleVoteSync(p, o, u, failing)
    \/ \E p \in PollInputs, ch \in Channels, u \in Users, posted \in BOOLEAN :
         ClockRoom(MaxTime) /\ SharePoll(p, ch, u, posted)

SpecViews == Init /\ [][NextViews]_vars

\* the row process_vote wrote for the last request is in the ledger
LastVoteCommitted ==
    [poll_id |-> last.poll, user_id |-> last.user, option_id |-> last.option]
        \in DOMAIN user_votes

\* C11: when a vote is accepted, its row stays committed and chat_update is
\* attempted for the primary view and for every active replica of the poll,
\* whichever of these pushes fail
EveryViewAttempted ==
    [][(last'.op = "vote" /\ last'.ret)
       => /\ LastVoteCommitted'
          /\ sync'.attempted = PrimaryViews(last'.poll) \cup ReplicaViews(last'.poll)]_vars

\* C12: the handler of an accepted vote never ends in its except branch,
\* which sends the voter the error message, whatever pushes failed
NoErrorToVoter ==
    [][(last'.op = "vote" /\ last'.ret) => ~sync'.error]_vars

\* C13: when the Sync of an accepted vote reaches two replicas and the push
\* succeeds for one and fails for the other, the vote is committed, the time
\* recorded on the first replica's row advances, and the second replica's row
\* stays active with its recorded time unchanged
PushedReplicaTimeAdvances ==
    [][(last'.op = "vote" /\ last'.ret)
       => \A r1, r2 \in ActiveShares(last'.poll) :
            (/\ Replica(r1) \in sync'.pushed
             /\ Replica(r2) \in sync'.attempted \ sync'.pushed)
            => /\ LastVoteCommitted'
               /\ shares'[r1].shared_at > shares[r1].shared_at
               /\ shares'[r2].is_active
               /\ shares'[r2].shared_at = shares[r2].shared_at]_vars

\* ------------------------------------------------------------------------
\* SpecSync: handle_vote requests running at once, from the first query of
\* process_vote to the triggers; the poll is shared before the votes start
NoCallStarted == \A c \in Calls : calls[c].pc = "idle"

NextSync ==
    \/ \E c \in Calls, p \in DOMAIN polls, u \in Users :
         \E o \in OptionsOf(p) : ReadPoll(c, p, o, u)
    \/ \E c \in Calls : ReadVotedUser(c)
    \/ \E c \in Calls : ReadOption(c)
    \/ \E c \in Calls : Commit(c)
    \/ \E c \in Calls : UpdateAnalytics(c)
    \/ \E c \in Calls : RenderPrimary(c)
    \/ \E c \in Calls : PushPrimary(c)
    \/ \E c \in Calls : RenderShares(c)
    \/ \E c \in Calls : PushShares(c)
    \/ \E c \in Calls : NotifyTriggers(c)
    \/ \E p \in DOMAIN polls, ch \in Channels, u \in Users :
         NoCallStarted /\ ClockRoom(MaxEditTime) /\ SharePoll(p, ch, u, TRUE)

SpecSync == Init /\ [][NextSync]_vars

\* every request has run to its end: process_vote returned and, where it
\* returned True, the Sync and the triggers are over
Quiescent ==
    /\ AllReturned
    /\ \A c \in Calls : calls[c].ret => handlers[c].stage = "done"

\* C14: once the concurrent votes have stopped and every Sync has completed,
\* none of them failing, the primary view and every active replica of each
\* poll show the poll's committed counts
ViewsShowCommittedCounts ==
    Quiescent
    => \A p \in DOMAIN polls :
         \A v \in PrimaryViews(p) \cup ReplicaViews(p) :
           display[v] = Render(polls, options, p)

\* ------------------------------------------------------------------------
\* SpecHandler: handle_vote requests of different voters on an unshared
\* single-choice poll running at once; the requests are numbered in the order
\* their first query runs, and request c is voter c's
StartedInOrder(c) == \A d \in Calls : d < c => calls[d].pc # "idle"

NextHandler ==
    \/ \E c \in Calls \cap Users, p \in DOMAIN polls :
         \E o \in OptionsOf(p) : StartedInOrder(c) /\ ReadPoll(c, p, o, c)
    \/ \E c \in Calls : ReadVotedUser(c)
    \/ \E c \in Calls : ReadOption(c)
    \/ \E c \in Calls : Commit(c)
    \/ \E c \in Calls : UpdateAnalytics(c)
    \/ \E c \in Calls : RenderPrimary(c)
    \/ \E c \in Calls : PushPrimary(c)
    \/ \E c \in Calls : RenderShares(c)
    \/ \E c \in Calls : PushShares(c)
    \/ \E c \in Calls : NotifyTriggers(c)

SpecHandler == InitSingle /\ [][NextHandler]_vars

\* the rows process_vote adds for request c
VoteRow(c) ==
    [poll_id |-> calls[c].poll, user_id |-> calls[c].user,
     option_id |-> calls[c].option]

\* db.query(UserVote).filter(poll_id == p).count(): the committed votes
CommittedVotes(p) ==
    BagSize(Restrict(user_votes, {v \in DOMAIN user_votes : v.poll_id = p}))

\* the poll a view shows
ViewPoll(v) == IF v.kind = "primary" THEN v.id ELSE shares[v.id].poll_id

\* the total a rendered payload shows
PayloadTotal(pay) == SumOver(pay.counts, DOMAIN pay.counts)

TimedRows == [user_id : Users, option_id : {1, 2}, hour : Hours, minute : Minutes]

RECURSIVE BagOfRows(_)
BagOfRows(rows) ==
    IF rows = << >> THEN EmptyBag
    ELSE BagAdd(BagOfRows(Tail(rows)),
                [poll_id |-> 1, user_id |-> Head(rows).user_id,
                 option_id |-> Head(rows).option_id])

InitRecompute ==
    /\ polls = (1 :> [vote_type |-> "multiple", status |-> "active",
                      creator_id |-> 1, ended_at |-> None, message_ts |-> TRUE])
    /\ \E n \in 0..MaxRecomputeVotes : \E rows \in [1..n -> TimedRows] :
         /\ recompute = [rows |-> rows, runs |-> << >>]
         /\ user_votes = BagOfRows(rows)
         /\ voted_users =
              [v \in {[poll_id |-> 1, user_id |-> rows[i].user_id] :
                        i \in DOMAIN rows} |-> 1]
         /\ options =
              [o \in {1, 2} |->
                 [poll_id |-> 1, text |-> IF o = 1 THEN "pizza" ELSE "sushi",
                  vote_count |-> Cardinality({i \in DOMAIN rows :
                                               rows[i].option_id = o}),
                  order_index |-> o - 1]]
    /\ analytics = EmptyBag
    /\ now = 0
    /\ last = Called("init", 0, 0, 0, FALSE, 0, {})
    /\ calls = [c \in Calls |-> Idle]
    /\ shares = EmptyBag
    /\ display = (Primary(1) :> Render(polls, options, 1))
    /\ sync = NoSync
    /\ handlers = [c \in Calls |-> Waiting]

NextRecompute ==
    \E p \in DOMAIN polls, order \in Perms(DOMAIN recompute.rows) :
      Len(recompute.runs) < MaxRuns /\ UpdatePollAnalytics(p, order)

SpecRecompute == InitRecompute /\ [][NextRecompute]_vars

\* C15: all runs of update_poll_analytics over the same ledger and the same
\* created_at compute the same five metrics, in whatever order the rows are
\* returned, ties for the peak hour included
RecomputeDeterministic ==
    \A i, j \in DOMAIN recompute.runs : recompute.runs[i] = recompute.runs[j]

\* C26: a vote request whose option id has no row, or names an option of
\* another poll, is rejected and leaves the ledger, the participation rows and
\* every option's vote_count as they were
ForeignOptionVoteRejected ==
    [][(last'.op = "vote"
          /\ IF last'.option \in DOMAIN options
             THEN options[last'.option].poll_id # last'.poll
             ELSE TRUE)
       => (/\ ~last'.ret
           /\ user_votes' = user_votes
           /\ voted_users' = voted_users
           /\ options' = options)]_vars

\* C23: after an accepted vote the close-race notification is sent exactly
\* when the poll has at least two options, the highest vote_count is above 0
\* and the second highest (equal to the highest when two options share it) is
\* at most 1 below it
CloseRaceIffTopTwoClose ==
    [][(last'.op = "vote" /\ last'.ret)
       => LET mine == {o \in DOMAIN options' : options'[o].poll_id = last'.poll}
              lead == SetMax({options'[o].vote_count : o \in mine})
              leaders == {o \in mine : options'[o].vote_count = lead}
              second == IF Cardinality(leaders) >= 2 THEN lead
                        ELSE SetMax({options'[o].vote_count : o \in mine \ leaders})
              fired == \E e \in last'.events : e.type = "close_race"
          IN fired <=> IF Cardinality(mine) < 2 THEN FALSE
                       ELSE lead - second <= 1 /\ lead > 0]_vars

\* an accepted vote after which the close-race notification was sent
CloseRaceSeen ==
    /\ last.op = "vote" /\ last.ret
    /\ \E e \in last.events : e.type = "close_race"

\* ------------------------------------------------------------------------
\* SpecDelete: votes on a poll that may be shared, and the three ways of
\* deleting a poll
NextDelete ==
    \/ \E p \in PollInputs, u \in Users : \E o \in OptionsOf(p) :
         LedgerRoom(p, u, MaxEditLedger) /\ HandleVote(p, o, u)
    \/ \E p \in PollInputs, ch \in Channels, u \in Users :
         ClockRoom(MaxEditTime) /\ SharePoll(p, ch, u, TRUE)
    \/ \E p \in PollInputs, u \in Users : AdminRemove(p, u)
    \/ \E p \in PollInputs : DashboardDeletePoll(p)
    \/ \E p \in PollInputs, u \in Users : RestDeletePoll(p, u)

SpecDelete == Init /\ [][NextDelete]_vars

\* C21: a step that deletes a poll leaves no vote record, participation row,
\* option, analytics snapshot or share of that poll behind, and a deletion
\* request that leaves the poll in place deletes none of them
WholePollDeleted ==
    [][/\ \A p \in DOMAIN polls \ DOMAIN polls' :
            /\ \A v \in DOMAIN user_votes' : v.poll_id # p
            /\ \A v \in DOMAIN voted_users' : v.poll_id # p
            /\ \A o \in DOMAIN options' : options'[o].poll_id # p
            /\ AnalyticsOf(analytics', p) = {}
            /\ \A x \in DOMAIN shares' : shares'[x].poll_id # p
       /\ (last'.op \in {"admin_remove", "dashboard_delete", "rest_delete"}
             /\ polls' = polls)
          => /\ user_votes' = user_votes /\ voted_users' = voted_users
             /\ options' = options /\ analytics' = analytics
             /\ shares' = shares]_vars

\* ------------------------------------------------------------------------
\* SpecTally: handle_vote requests running at once on a multiple-choice poll
\* on which every user has already voted once for each of the two options
TallyRows == {[poll_id |-> 1, user_id |-> u, option_id |-> o] :
                u \in Users, o \in {1, 2}}

InitTally ==
    /\ polls = (1 :> [vote_type |-> "multiple", status |-> "active",
                      creator_id |-> 1, ended_at |-> None, message_ts |-> TRUE])
    /\ options =
         [o \in {1, 2} |->
            [poll_id |-> 1, text |-> IF o = 1 THEN "pizza" ELSE "sushi",
             vote_count |-> Cardinality(Users), order_index |-> o - 1]]
    /\ user_votes = [v \in TallyRows |-> 1]
    /\ voted_users = [v \in {[poll_id |-> 1, user_id |-> u] : u \in Users} |-> 1]
    /\ analytics = UpsertAnalytics(EmptyBag, 1,
                                   AnalyticsRow(options, voted_users, 1))
    /\ now = 0
    /\ last = Called("init", 0, 0, 0, FALSE, 0, {})
    /\ calls = [c \in Calls |-> Idle]
    /\ shares = EmptyBag
    /\ display = (Primary(1) :> Render(polls, options, 1))
    /\ sync = NoSync
    /\ handlers = [c \in Calls |-> Waiting]
    /\ recompute = NoRecompute

SpecTally == InitTally /\ [][NextHandler]_vars

\* C22: when every request has run to its end, each multiple of 5 that the
\* poll's total reached since the requests started has exactly one
\* vote-milestone notification, sent by one handler
OneMilestonePerMultiple ==
    Quiescent
    => \A m \in (Cardinality(TallyRows) + 1)..TotalVotes(1) :
         MilestoneFires(m)
         => Cardinality({c \in Calls :
                          \E e \in handlers[c].sent :
                            e.type = "vote_milestone" /\ e.value = m}) = 1

\* C27: when can_end_poll authorizes the actor of an end request on an
\* active poll (the creator, or an admin who is not the creator), the request
\* succeeds: afterwards the poll's status is 'ended' and ended_at is set
AuthorizedEndSucceeds ==
    [][(last'.op = "end"
          /\ can_end_poll(last'.user, last'.poll)
          /\ IF last'.poll \in DOMAIN polls
             THEN polls[last'.poll].status = "active" ELSE FALSE)
       => (/\ last'.ret
           /\ polls'[last'.poll].status = "ended"
           /\ polls'[last'.poll].ended_at # None)]_vars

\* ------------------------------------------------------------------------
\* SpecLedger: the requests that touch a poll with votes: voting, ending,
\* adding, renaming and removing an option, the results view and the admin's
\* removal of the poll
NextLedger ==
    \/ \E p \in DOMAIN polls, u \in Users : \E o \in OptionsOf(p) :
         LedgerRoom(p, u, MaxEditLedger) /\ HandleVote(p, o, u)
    \/ \E p \in DOMAIN polls, u \in Users :
         ClockRoom(MaxEditTime) /\ HandleEndPoll(p, u)
    \/ \E p \in DOMAIN polls, t \in TextInputs, u \in Users :
         OptionRoom(p, t, u, MaxEditOptionId) /\ AddPollOption(p, t, u)
    \/ \E p \in DOMAIN polls, u \in Users : \E o \in OptionsOf(p) :
         RemovePollOption(p, o, u)
    \/ \E p \in DOMAIN polls, t \in TextInputs, u \in Users :
         \E o \in OptionsOf(p) : EditPollOption(p, o, t, u)
    \/ \E p \in PollInputs : ViewResults(p)
    \/ \E p \in PollInputs, u \in Users : AdminRemove(p, u)

SpecLedger == InitSingle /\ [][NextLedger]_vars

\* C28: a step that does not delete the poll of a UserVote record leaves the
\* record in the ledger as it was written
LedgerAppendOnly ==
    [][\A v \in DOMAIN user_votes :
         v.poll_id \in DOMAIN polls'
         => IF v \in DOMAIN user_votes' THEN user_votes'[v] >= user_votes[v]
            ELSE FALSE]_vars

\* a poll with a vote record has been ended, had an option renamed, or had
\* its results viewed, the record still in the ledger
VotedPollTouched ==
    /\ last.op \in {"end", "edit_option", "results"}
    /\ last.ret
    /\ \E v \in DOMAIN user_votes : v.poll_id = last.poll

\* ------------------------------------------------------------------------
\* SpecMutate: the mutations of a poll that is shared to another channel
NextMutate ==
    \/ \E p \in DOMAIN polls, ch \in Channels, u \in Users :
         ClockRoom(MaxEditTime) /\ SharePoll(p, ch, u, TRUE)
    \/ \E p \in DOMAIN polls, u \in Users : \E o \in OptionsOf(p) :
         LedgerRoom(p, u, MaxEditLedger) /\ HandleVote(p, o, u)
    \/ \E p \in DOMAIN polls, u \in Users :
         ClockRoom(MaxTime) /\ HandleEndPoll(p, u)
    \/ \E p \in DOMAIN polls, u \in Users :
         ClockRoom(MaxTime) /\ AdminEnd(p, u)
    \/ \E p \in DOMAIN polls, t \in TextInputs, u \in Users :
         OptionRoom(p, t, u, MaxEditOptionId) /\ AddPollOption(p, t, u)
    \/ \E p \in DOMAIN polls, t \in TextInputs, u \in Users :
         \E o \in OptionsOf(p) : EditPollOption(p, o, t, u)
    \/ \E p \in DOMAIN polls, u \in Users : \E o \in OptionsOf(p) :
         RemovePollOption(p, o, u)

SpecMutate == Init /\ [][NextMutate]_vars

\* C24: after every committed mutation of a poll (a vote, the end of the poll
\* by the button or by the admin command, an option added, renamed or
\* removed) the primary view and every active share of the poll have been
\* pushed the poll as it now is
EveryMutationSynced ==
    [][(last'.ret /\ last'.op \in {"vote", "end", "admin_end", "add_option",
                                   "edit_option", "remove_option"})
       => \A v \in PrimaryViews(last'.poll) \cup ReplicaViews(last'.poll) :
            display'[v] = Render(polls', options', last'.poll)]_vars

\* C25: the payload a Sync renders for the shares of a poll is the payload it
\* pushed to the primary view, whatever was committed in between
OnePayloadPerSync ==
    [][\A c \in Calls :
         (/\ handlers[c].stage = "render_shares"
          /\ handlers'[c].stage = "push_shares"
          /\ handlers'[c].views # {})
         => handlers'[c].payload = handlers[c].payload]_vars

\* C29: in every reachable state a poll has at most one PollAnalytics row,
\* also while update_poll_analytics runs interleave; and once every run has
\* finished, the row readers fetch holds the totals of the committed ledger
OneFreshSnapshot ==
    /\ \A p \in DOMAIN polls : Cardinality(AnalyticsOf(analytics, p)) <= 1
    /\ (\A c \in Calls : calls[c].pc \in {"idle", "done"}) =>
         \A p \in DOMAIN polls :
           FirstAnalytics(analytics, p) # None =>
             LET row == analytics[FirstAnalytics(analytics, p)]
                 latest == AnalyticsRow(options, voted_users, p)
             IN /\ row.total_votes = latest.total_votes
                /\ row.unique_voters = latest.unique_voters

\* two update_poll_analytics runs have finished and the poll has two rows
TwoSnapshotRows ==
    /\ \A c \in Calls : calls[c].pc = "done" /\ calls[c].ret
    /\ \E p \in DOMAIN polls : Cardinality(AnalyticsOf(analytics, p)) > 1

\* C30: a poll created through the creation flow has at least two options in
\* every reachable state, whatever add_poll_option and remove_poll_option
\* requests ran, one after another or at once
AtLeastTwoOptions ==
    \A p \in DOMAIN polls : Cardinality(OptionsOf(p)) >= MinOptions

====
